---- MODULE Spec2Model ----
(***************************************************************************)
(* A model of the takt step sequencer (src/src/App.tsx): the React state   *)
(* of the App component, one action per event handler, and the playback    *)
(* interval effect with the closure its timer captures.                    *)
(*                                                                         *)
(* Columns are 0-based as in the source; a row is a TLA+ sequence, so the  *)
(* cell of column c is beats[c + 1].  Volumes are hundredths (0.5 is 50).  *)
(* A board is the sequence of its entries in Object.entries order.         *)
(***************************************************************************)
EXTENDS Integers, Sequences, FiniteSets, TLC

VARIABLES
    savedBeats,   \* useLocalStorage("beats"): the preset list
    bpm,          \* useState bpm
    isPlaying,    \* useState isPlaying
    currentCol,   \* useState currentCol
    board,        \* useState board
    mutes,        \* useState mutes
    volumes,      \* useState volumes
    timer,        \* the interval armed by the playback effect, with its closure
    queued,       \* a firing of an interval whose callback has not run yet
    nTicks,       \* history: ticks fired in the current playing period
    startCol,     \* history: currentCol when the current playing period began
    tickCol,      \* history: the column the last tick decided on
    played,       \* history: the sounds the last tick started
    periodEdits,  \* history: user operations since the current playing period began
    fills,        \* history: the latest run of identical fillWithPattern calls
    stored,       \* history: the live grid, tempo and volumes each preset was saved from
    last,         \* history: the handler that ran last and the index it was given
    opsLeft       \* exploration budget: user operations still allowed

progVars == <<savedBeats, bpm, isPlaying, currentCol, board, mutes, volumes>>

vars == <<savedBeats, bpm, isPlaying, currentCol, board, mutes, volumes, timer,
          queued, nTicks, startCol, tickCol, played, periodEdits, fills, stored, last,
          opsLeft>>

----------------------------------------------------------------------------
(* Program constants *)

boardWidth == 16

defaultBpm == 200

defaultVolume == 50

SoundNames == <<"Kick", "Hi Hat", "Snare", "Clap">>

boardHeight == Len(SoundNames)

----------------------------------------------------------------------------
(* Bounds of the exploration *)

\* user operations explored from the initial state (Spec)
MaxOps == 3

\* user operations explored while the transport runs a whole bar (SpecTransport)
MaxTransportOps == 3

\* consecutive fills and toggles explored on the grid (SpecFill)
MaxFillOps == 3

\* user operations explored around a stale preset (SpecStale)
MaxStaleOps == 3

\* ticks followed in one playing period by Spec
MaxTicks == 2

\* ticks followed in one playing period by SpecTransport: one bar and a wrap
MaxBarTicks == 17

\* presets kept in the list
MaxBeats == 2

\* largest step divisor and offset handed to fillWithPattern by SpecFill
MaxDivisor == 5

\* user operations explored around a waiting firing (SpecTimer)
MaxTimerOps == 4

\* ticks followed in one playing period by SpecTimer
MaxTimerTicks == 3

\* user operations after which the user leaves the playback alone (SpecLive)
MaxLiveOps == 3

\* user operations explored on the preset list (SpecPresets)
MaxPresetOps == 4

----------------------------------------------------------------------------
(* Pure helpers *)

AllFalse(width) == [i \in 1..width |-> FALSE]

\* sounds.reduce((acc, sound) => { acc[sound.name] = new Array(boardWidth).fill(false) })
initializeBoard(sounds) ==
    [i \in 1..Len(sounds) |-> [name |-> sounds[i], beats |-> AllFalse(boardWidth)]]

\* a generatePattern that counts the steps from 1
generatePatternFromOne(width, skip, offset) ==
    [i \in 1..width |-> (i % skip) = offset]

\* a generatePattern whose loop runs to i = width: a step set there makes the
\* array one longer
generatePatternInclusive(width, skip, offset) ==
    [i \in 1..(IF (width % skip) = offset THEN width + 1 ELSE width) |->
        ((i - 1) % skip) = offset]

\* for (i = 0; i < width; i++) if (i % skip === offset) pattern[i] = true
generatePattern(width, skip, offset) ==
    [i \in 1..width |-> ((i - 1) % skip) = offset]

\* Array.prototype.join("") of a boolean array
RECURSIVE Join(_)
Join(row) ==
    IF row = <<>> THEN ""
    ELSE (IF Head(row) THEN "true" ELSE "false") \o Join(Tail(row))

\* position of the entry named name in Object.entries(b), 0 when absent
EntryIndex(b, name) ==
    IF \E i \in 1..Len(b) : b[i].name = name
    THEN CHOOSE i \in 1..Len(b) : b[i].name = name
    ELSE 0

HasRow(b, name) == EntryIndex(b, name) # 0

\* b[name]
RowOf(b, name) == b[EntryIndex(b, name)].beats

\* { ...prev, [name]: row }: an existing key keeps its place, a new one is appended
SetRow(prev, name, row) ==
    IF HasRow(prev, name)
    THEN [prev EXCEPT ![EntryIndex(prev, name)].beats = row]
    ELSE Append(prev, [name |-> name, beats |-> row])

\* a fillWithPattern that never clears: the row always becomes the pattern
fillWithPatternNoClear(prev, soundName, step, skip) ==
    SetRow(prev, soundName, generatePattern(boardWidth, step, skip))

\* the updater of fillWithPattern
fillWithPattern(prev, soundName, step, skip) ==
    LET pattern == generatePattern(boardWidth, step, skip)
    IN  SetRow(prev, soundName,
               IF Join(RowOf(prev, soundName)) = Join(pattern)
               THEN AllFalse(boardWidth)
               ELSE pattern)

\* newRow = [...beats]; newRow[idx] = !newRow[idx]
toggleCell(prev, soundName, idx) ==
    LET beats == RowOf(prev, soundName)
    IN  SetRow(prev, soundName, [beats EXCEPT ![idx + 1] = ~beats[idx + 1]])

IsSound(name) == \E i \in 1..Len(SoundNames) : SoundNames[i] = name

\* beats[col]: undefined (falsy) past the end of the row
CellAt(beats, col) == col + 1 <= Len(beats) /\ beats[col + 1]

\* mutedSounds[idx]: undefined (falsy) past the end of the vector
MutedAt(mutedSounds, idx) == idx + 1 <= Len(mutedSounds) /\ mutedSounds[idx + 1]

\* the sounds started by the second forEach of the tick callback; the mute flag
\* is read at the entry's position in Object.entries(board)
StartedSounds(b, col, mutedSounds) ==
    { b[i].name : i \in { j \in 1..Len(b) :
          /\ IsSound(b[j].name)
          /\ CellAt(b[j].beats, col)
          /\ ~MutedAt(mutedSounds, j - 1) } }

\* Number(e.target.value) of the tempo input; a number input reports "" for
\* text that is no number
NumberOfTempo(text) ==
    CASE text = "1"   -> 1
      [] text = "300" -> 300
      [] text = "120" -> 120
      [] text = "0"   -> 0
      [] text = "-5"  -> -5
      [] text = ""    -> 0

\* Number(volume) in hundredths
NumberOfVolume(text) ==
    CASE text = "0"    -> 0
      [] text = "0.25" -> 25
      [] text = "0.5"  -> 50
      [] text = "1"    -> 100
      [] text = "1.4"  -> 140
      [] text = "-1"   -> -100

\* (60 / (bpm * 2)) * 1000, in milliseconds rounded down; 60 / 0 is Infinity
Period(tempo) ==
    IF tempo = 0 THEN [finite |-> FALSE, ms |-> 0]
    ELSE IF tempo > 0 THEN [finite |-> TRUE, ms |-> 30000 \div tempo]
    ELSE [finite |-> TRUE, ms |-> 0 - (30000 \div (0 - tempo))]

NoTimer == [armed |-> FALSE, board |-> <<>>, bpm |-> 0, mutes |-> <<>>,
            period |-> [finite |-> FALSE, ms |-> 0]]

\* the playback effect: its cleanup cancels the interval of the previous render;
\* it arms nothing unless isPlaying, and the callback closes over board, bpm, mutes
PlaybackEffect(playing, b, tempo, m) ==
    IF ~playing THEN NoTimer
    ELSE [armed |-> TRUE, board |-> b, bpm |-> tempo, mutes |-> m,
          period |-> Period(tempo)]

\* no firing waits for its callback
NoFiring == [pending |-> FALSE, canceled |-> FALSE, board |-> <<>>, mutes |-> <<>>]

\* a firing of the interval t: the callback that waits closes over t's board and
\* mutes and over the canceled flag of the effect run that armed t
FiringOf(t) == [pending |-> TRUE, canceled |-> FALSE, board |-> t.board,
                mutes |-> t.mutes]

\* the effect's cleanup: canceled = true; clearInterval(interval)
Cleanup(q) == IF q.pending THEN [q EXCEPT !.canceled = TRUE] ELSE q

\* a callback that ignores the cleanup
CanceledIgnored(q) == FALSE

\* if (canceled) return
Canceled(q) == q.canceled

\* useState initialisers of mutes and volumes
InitialMutes == [i \in 1..boardHeight |-> FALSE]

DefaultVolumes == [i \in 1..Len(SoundNames) |-> defaultVolume]

\* volumes.split(",").map(Number) on the URL parameter, given as its tokens;
\* an absent or empty parameter gives the defaults
InitialVolumes(param) ==
    IF param = <<>> THEN DefaultVolumes
    ELSE [i \in 1..Len(param) |-> NumberOfVolume(param[i])]

----------------------------------------------------------------------------
(* History kept beside the program state *)

\* the handler that ran, and one user operation spent
Note(op, arg) == last' = [op |-> op, arg |-> arg] /\ opsLeft' = opsLeft - 1

\* a playing period begins or ends with isPlaying; its tick history starts empty
PeriodHistory ==
    IF ~isPlaying /\ isPlaying'
    THEN /\ nTicks' = 0 /\ startCol' = currentCol' /\ tickCol' = -1 /\ played' = {}
         /\ periodEdits' = 0
    ELSE IF isPlaying /\ ~isPlaying'
    THEN /\ nTicks' = 0 /\ startCol' = 0 /\ periodEdits' = 0
         /\ UNCHANGED <<tickCol, played>>
    ELSE /\ periodEdits' = IF isPlaying THEN periodEdits + 1 ELSE periodEdits
         /\ UNCHANGED <<nTicks, startCol, tickCol, played>>

\* an effect whose dependency list lacks board: a grid edit alone leaves the
\* interval of the earlier render armed
ArmIgnoringBoard ==
    timer' = IF <<bpm', isPlaying', mutes'>> # <<bpm, isPlaying, mutes>>
             THEN PlaybackEffect(isPlaying', board', bpm', mutes')
             ELSE timer

\* an effect whose dependency list lacks mutes: a mute toggle alone leaves the
\* interval of the earlier render armed
ArmIgnoringMutes ==
    timer' = IF <<board', bpm', isPlaying'>> # <<board, bpm, isPlaying>>
             THEN PlaybackEffect(isPlaying', board', bpm', mutes')
             ELSE timer

\* an effect that arms an interval only in the render where isPlaying changed:
\* the cleanup after any other change leaves none
ArmOnlyOnToggle ==
    timer' = IF isPlaying' # isPlaying
             THEN PlaybackEffect(isPlaying', board', bpm', mutes')
             ELSE NoTimer

\* the playback effect of the next render: the interval it leaves armed
Arm == timer' = PlaybackEffect(isPlaying', board', bpm', mutes')

\* the render that follows a handler re-runs the playback effect when one of its
\* dependencies board, bpm, isPlaying, mutes changed, and the cleanup of the
\* previous run cancels a firing that still waits (an update that stores an
\* equal value is taken as no change)
Rearm ==
    /\ Arm
    /\ queued' = IF <<board', bpm', isPlaying', mutes'>> # <<board, bpm, isPlaying, mutes>>
                 THEN Cleanup(queued)
                 ELSE queued

----------------------------------------------------------------------------
(* Transport *)

\* setCurrentCol(0); setIsPlaying((prev) => !prev) in one flushSync
KeyUpSpace ==
    /\ opsLeft > 0
    /\ currentCol' = 0
    /\ isPlaying' = ~isPlaying
    /\ UNCHANGED <<savedBeats, bpm, board, mutes, volumes, stored>>
    /\ fills' = <<>>
    /\ Rearm /\ PeriodHistory /\ Note("space", 0)

\* onClick={() => setIsPlaying((prev) => !prev)}
ClickPlayPause ==
    /\ opsLeft > 0
    /\ isPlaying' = ~isPlaying
    /\ UNCHANGED <<savedBeats, bpm, currentCol, board, mutes, volumes, stored>>
    /\ fills' = <<>>
    /\ Rearm /\ PeriodHistory /\ Note("button", 0)

\* an advance that skips a column
NextColSkipping(prev) == (prev + 2) % boardWidth

\* (prev + 1) % boardWidth
NextCol(prev) == (prev + 1) % boardWidth

\* mutedSounds = [...mutes], the mutes of the render that armed the interval
SnapshotMutes(t) == t.mutes

\* the body of the interval callback past its canceled test: one flushSync
\* publishing the next column and the mute snapshot, then the two forEach loops
\* over the closure's board; setMutes stores a new array, so the effect runs
\* again and arms the next interval. n is the tick count kept as history and q
\* the firing left waiting
Callback(closure, n, q) ==
    /\ LET col == currentCol
           mutedSounds == SnapshotMutes(closure)
       IN  /\ currentCol' = NextCol(col)
           /\ mutes' = mutedSounds
           /\ tickCol' = col
           /\ played' = StartedSounds(closure.board, col, mutedSounds)
    /\ nTicks' = n
    /\ queued' = q
    /\ last' = [op |-> "tick", arg |-> 0]
    /\ UNCHANGED <<savedBeats, bpm, isPlaying, board, volumes, startCol, periodEdits,
                   fills, stored, opsLeft>>
    /\ Arm

\* the interval fires and its callback runs at once, at most maxTicks times in
\* a playing period
Tick(maxTicks) ==
    /\ timer.armed
    /\ nTicks < maxTicks
    /\ Callback(timer, nTicks + 1, Cleanup(queued))

\* the same with no limit on the ticks: the history counts them modulo the width
FreeTick ==
    /\ timer.armed
    /\ Callback(timer, (nTicks + 1) % boardWidth, Cleanup(queued))

\* the period of the armed interval elapses: its callback is queued behind
\* whatever the event loop runs first
Elapse ==
    /\ timer.armed
    /\ ~queued.pending
    /\ queued' = FiringOf(timer)
    /\ UNCHANGED <<savedBeats, bpm, isPlaying, currentCol, board, mutes, volumes,
                   timer, nTicks, startCol, tickCol, played, periodEdits, fills,
                   stored, last, opsLeft>>

\* the queued callback runs: if (canceled) return, else the tick
RunQueued(maxTicks) ==
    /\ queued.pending
    /\ IF Canceled(queued)
       THEN /\ queued' = NoFiring
            /\ last' = [op |-> "canceledFiring", arg |-> 0]
            /\ UNCHANGED <<savedBeats, bpm, isPlaying, currentCol, board, mutes,
                           volumes, timer, nTicks, startCol, tickCol, played,
                           periodEdits, fills, stored, opsLeft>>
       ELSE /\ nTicks < maxTicks
            /\ Callback(queued, nTicks + 1, NoFiring)

\* onChange={(e) => setBpm(Number(e.target.value))}
ChangeBpm(text) ==
    /\ opsLeft > 0
    /\ bpm' = NumberOfTempo(text)
    /\ UNCHANGED <<savedBeats, isPlaying, currentCol, board, mutes, volumes, stored>>
    /\ fills' = <<>>
    /\ Rearm /\ PeriodHistory /\ Note("bpm", 0)

\* a Reset that stops the transport where it stands
ResetKeepingCol ==
    /\ opsLeft > 0
    /\ board' = initializeBoard(SoundNames)
    /\ volumes' = DefaultVolumes
    /\ isPlaying' = FALSE
    /\ UNCHANGED <<savedBeats, bpm, currentCol, mutes, stored>>
    /\ fills' = <<>>
    /\ Rearm /\ PeriodHistory /\ Note("reset", 0)

\* Reset: setBoard(initializeBoard(sounds)); setVolumes(sounds.map(() => 0.5));
\* setIsPlaying(false); setCurrentCol(0)
Reset ==
    /\ opsLeft > 0
    /\ board' = initializeBoard(SoundNames)
    /\ volumes' = DefaultVolumes
    /\ isPlaying' = FALSE
    /\ currentCol' = 0
    /\ UNCHANGED <<savedBeats, bpm, mutes, stored>>
    /\ fills' = <<>>
    /\ Rearm /\ PeriodHistory /\ Note("reset", 0)

----------------------------------------------------------------------------
(* Mix *)

\* newMutes = [...prev]; newMutes[idx] = !newMutes[idx]
toggleMute(prev, idx) == [prev EXCEPT ![idx + 1] = ~prev[idx + 1]]

ToggleMute(idx) ==
    /\ opsLeft > 0
    /\ idx < Len(mutes)
    /\ mutes' = toggleMute(mutes, idx)
    /\ UNCHANGED <<savedBeats, bpm, isPlaying, currentCol, board, volumes, stored>>
    /\ fills' = <<>>
    /\ Rearm /\ PeriodHistory /\ Note("mute", idx)

\* next = [...prev]; next[idx] = value
setVolume(prev, idx, value) == [prev EXCEPT ![idx + 1] = value]

\* onDoubleClick: next[idx] = 0.5
DoubleClickVolume(idx) ==
    /\ opsLeft > 0
    /\ idx < Len(volumes)
    /\ volumes' = setVolume(volumes, idx, defaultVolume)
    /\ UNCHANGED <<savedBeats, bpm, isPlaying, currentCol, board, mutes, stored>>
    /\ fills' = <<>>
    /\ Rearm /\ PeriodHistory /\ Note("volumeDefault", idx)

\* onInput: next[idx] = Number(e.target.value); the value of a range input
\* lies between its min and max
InputVolume(idx, text) ==
    /\ opsLeft > 0
    /\ idx < Len(volumes)
    /\ volumes' = setVolume(volumes, idx, NumberOfVolume(text))
    /\ UNCHANGED <<savedBeats, bpm, isPlaying, currentCol, board, mutes, stored>>
    /\ fills' = <<>>
    /\ Rearm /\ PeriodHistory /\ Note("volume", idx)

----------------------------------------------------------------------------
(* Grid *)

\* the history of consecutive fillWithPattern calls with the same arguments:
\* the last two calls of the run, each with the row it found
FillHistory(soundName, step, skip) ==
    LET rec == [sound |-> soundName, step |-> step, skip |-> skip,
                pre |-> board]
        same == /\ fills # <<>>
                /\ fills[1].sound = soundName
                /\ fills[1].step = step
                /\ fills[1].skip = skip
    IN  fills' = IF same THEN <<fills[Len(fills)], rec>> ELSE <<rec>>

\* the pattern buttons: fillWithPattern(sound.name, step, skip); prev[soundName]
\* of a board without that row is undefined and its join throws
ClickFill(soundName, step, skip) ==
    /\ opsLeft > 0
    /\ HasRow(board, soundName)
    /\ board' = fillWithPattern(board, soundName, step, skip)
    /\ FillHistory(soundName, step, skip)
    /\ UNCHANGED <<savedBeats, bpm, isPlaying, currentCol, mutes, volumes, stored>>
    /\ Rearm /\ PeriodHistory /\ Note("fill", 0)

\* a cell button that flips the cell in the row it was rendered from instead of
\* in a copy: a preset whose pattern is the live grid changes with it
ToggleCellInPlace(soundName, idx) ==
    /\ opsLeft > 0
    /\ IsSound(soundName)
    /\ HasRow(board, soundName)
    /\ idx < Len(RowOf(board, soundName))
    /\ board' = toggleCell(board, soundName, idx)
    /\ savedBeats' = [k \in 1..Len(savedBeats) |->
                         IF savedBeats[k].pattern = board
                         THEN [savedBeats[k] EXCEPT !.pattern = board']
                         ELSE savedBeats[k]]
    /\ UNCHANGED <<bpm, isPlaying, currentCol, mutes, volumes, stored>>
    /\ fills' = <<>>
    /\ Rearm /\ PeriodHistory /\ Note("cell", idx)

\* a cell button, rendered for the rows of configured sounds only
ToggleCell(soundName, idx) ==
    /\ opsLeft > 0
    /\ IsSound(soundName)
    /\ HasRow(board, soundName)
    /\ idx < Len(RowOf(board, soundName))
    /\ board' = toggleCell(board, soundName, idx)
    /\ UNCHANGED <<savedBeats, bpm, isPlaying, currentCol, mutes, volumes, stored>>
    /\ fills' = <<>>
    /\ Rearm /\ PeriodHistory /\ Note("cell", idx)

----------------------------------------------------------------------------
(* Presets *)

\* a snapshot taken after the grid was cleared
SnapshotOfClearedGrid(name, b, tempo, v) ==
    [name |-> name, pattern |-> initializeBoard(SoundNames), bpm |-> tempo,
     volumes |-> v]

\* { name, pattern: board, bpm, volumes }
Snapshot(name, b, tempo, v) ==
    [name |-> name, pattern |-> b, bpm |-> tempo, volumes |-> v]

\* history: what is live now, as a preset saved now is expected to restore it
Live == [pattern |-> board, bpm |-> bpm, volumes |-> volumes]

\* a save that clears the grid before it looks at the prompt's answer
SaveAsNewClearingFirst(name) ==
    /\ opsLeft > 0
    /\ IF name = ""
       THEN UNCHANGED <<savedBeats, stored>> /\ Note("saveNewCancelled", 0)
       ELSE /\ Len(savedBeats) < MaxBeats
            /\ savedBeats' = Append(savedBeats, Snapshot(name, board, bpm, volumes))
            /\ stored' = Append(stored, Live)
            /\ Note("saveNew", Len(savedBeats) + 1)
    /\ board' = initializeBoard(SoundNames)
    /\ UNCHANGED <<bpm, isPlaying, currentCol, mutes, volumes>>
    /\ fills' = <<>>
    /\ Rearm /\ PeriodHistory

\* Save as new beat: a cancelled or empty prompt returns before any update
SaveAsNew(name) ==
    /\ opsLeft > 0
    /\ IF name = ""
       THEN UNCHANGED <<savedBeats, board, stored>> /\ Note("saveNewCancelled", 0)
       ELSE /\ Len(savedBeats) < MaxBeats
            /\ savedBeats' = Append(savedBeats, Snapshot(name, board, bpm, volumes))
            /\ board' = initializeBoard(SoundNames)
            /\ stored' = Append(stored, Live)
            /\ Note("saveNew", Len(savedBeats) + 1)
    /\ UNCHANGED <<bpm, isPlaying, currentCol, mutes, volumes>>
    /\ fills' = <<>>
    /\ Rearm /\ PeriodHistory

\* Load: setBoard(beat.pattern); setBpm(beat.bpm)
Load(i) ==
    /\ opsLeft > 0
    /\ i \in 1..Len(savedBeats)
    /\ board' = savedBeats[i].pattern
    /\ bpm' = savedBeats[i].bpm
    /\ UNCHANGED <<savedBeats, isPlaying, currentCol, mutes, volumes, stored>>
    /\ fills' = <<>>
    /\ Rearm /\ PeriodHistory /\ Note("load", i)

\* Save: after confirm, next[idx] = { name: beat.name, pattern: board, bpm, volumes }
Overwrite(i, confirmed) ==
    /\ opsLeft > 0
    /\ i \in 1..Len(savedBeats)
    /\ IF confirmed
       THEN /\ savedBeats' = [savedBeats EXCEPT
                                ![i] = Snapshot(savedBeats[i].name, board, bpm, volumes)]
            /\ stored' = [stored EXCEPT ![i] = Live]
            /\ Note("overwrite", i)
       ELSE UNCHANGED <<savedBeats, stored>> /\ Note("overwriteDeclined", i)
    /\ UNCHANGED <<bpm, isPlaying, currentCol, board, mutes, volumes>>
    /\ fills' = <<>>
    /\ Rearm /\ PeriodHistory

\* next.splice(idx, 1)
Splice(list, i) == [k \in 1..(Len(list) - 1) |-> IF k < i THEN list[k] ELSE list[k + 1]]

\* Delete: after confirm, the preset is spliced out
Delete(i, confirmed) ==
    /\ opsLeft > 0
    /\ i \in 1..Len(savedBeats)
    /\ IF confirmed
       THEN /\ savedBeats' = Splice(savedBeats, i)
            /\ stored' = [k \in 1..(Len(stored) - 1) |->
                             IF k < i THEN stored[k] ELSE stored[k + 1]]
            /\ Note("delete", i)
       ELSE UNCHANGED <<savedBeats, stored>> /\ Note("deleteDeclined", i)
    /\ UNCHANGED <<bpm, isPlaying, currentCol, board, mutes, volumes>>
    /\ fills' = <<>>
    /\ Rearm /\ PeriodHistory

\* a rename that stores the live grid, tempo and volumes under the new name
RenameSavingLive(i, newName) ==
    /\ opsLeft > 0
    /\ i \in 1..Len(savedBeats)
    /\ IF newName # ""
       THEN /\ savedBeats' = [savedBeats EXCEPT ![i] = Snapshot(newName, board, bpm, volumes)]
            /\ Note("rename", i)
       ELSE UNCHANGED savedBeats /\ Note("renameCancelled", i)
    /\ UNCHANGED <<bpm, isPlaying, currentCol, board, mutes, volumes, stored>>
    /\ fills' = <<>>
    /\ Rearm /\ PeriodHistory

\* the name button: a non-empty answer gives next[idx] = { ...beat, name: newName }
Rename(i, newName) ==
    /\ opsLeft > 0
    /\ i \in 1..Len(savedBeats)
    /\ IF newName # ""
       THEN /\ savedBeats' = [savedBeats EXCEPT ![i] = [savedBeats[i] EXCEPT !.name = newName]]
            /\ Note("rename", i)
       ELSE UNCHANGED savedBeats /\ Note("renameCancelled", i)
    /\ UNCHANGED <<bpm, isPlaying, currentCol, board, mutes, volumes, stored>>
    /\ fills' = <<>>
    /\ Rearm /\ PeriodHistory

----------------------------------------------------------------------------
(* The inputs the handlers are given *)

\* the (step, skip) pairs of the four pattern buttons, with and without shift
FillButtons == {<<1, 0>>, <<2, 0>>, <<2, 1>>, <<4, 0>>, <<4, 2>>, <<8, 0>>, <<8, 4>>}

\* what the tempo field may report: in range, zero, negative, emptied
TempoTexts == {"1", "300", "0", "-5", ""}

\* what a volume slider may report
SliderTexts == {"0", "1"}

\* the volumes parameter of the page URL, split at its commas: absent, or four
\* numbers of which two are out of range
UrlVolumes == {<<>>, <<"1.4", "-1", "0.5", "0.5">>}

\* the rows, columns and tracks the explored edits act on
EditSounds == {"Kick", "Snare"}

EditCols == {0, 5}

EditTracks == {0, 1}

\* the answers to the name prompts: cancelled or empty, and a name
NewNames == {"", "A"}

Renames == {"", "B"}

----------------------------------------------------------------------------
(* The program: every handler, from a fresh page *)

InitWith(ops, beats) ==
    /\ savedBeats = beats
    /\ bpm = defaultBpm
    /\ isPlaying = FALSE
    /\ currentCol = 0
    /\ board = initializeBoard(SoundNames)
    /\ mutes = InitialMutes
    /\ volumes \in { InitialVolumes(param) : param \in UrlVolumes }
    /\ timer = NoTimer
    /\ queued = NoFiring
    /\ nTicks = 0
    /\ startCol = 0
    /\ tickCol = -1
    /\ played = {}
    /\ periodEdits = 0
    /\ fills = <<>>
    /\ stored = [i \in 1..Len(beats) |->
                   [pattern |-> beats[i].pattern, bpm |-> beats[i].bpm,
                    volumes |-> beats[i].volumes]]
    /\ last = [op |-> "init", arg |-> 0]
    /\ opsLeft = ops

Init == InitWith(MaxOps, <<>>)

Next ==
    \/ KeyUpSpace
    \/ ClickPlayPause
    \/ Tick(MaxTicks)
    \/ Reset
    \/ \E text \in TempoTexts : ChangeBpm(text)
    \/ \E idx \in EditTracks : ToggleMute(idx)
    \/ \E idx \in EditTracks : DoubleClickVolume(idx)
    \/ \E idx \in EditTracks, text \in SliderTexts : InputVolume(idx, text)
    \/ \E soundName \in EditSounds, args \in FillButtons :
           ClickFill(soundName, args[1], args[2])
    \/ \E soundName \in EditSounds, idx \in EditCols : ToggleCell(soundName, idx)
    \/ \E name \in NewNames : SaveAsNew(name)
    \/ \E i \in 1..MaxBeats : Load(i)
    \/ \E i \in 1..MaxBeats, confirmed \in BOOLEAN : Overwrite(i, confirmed)
    \/ \E i \in 1..MaxBeats, confirmed \in BOOLEAN : Delete(i, confirmed)
    \/ \E i \in 1..MaxBeats, newName \in Renames : Rename(i, newName)

Spec == Init /\ [][Next]_vars

----------------------------------------------------------------------------
(* The transport over a whole bar: a page that starts with one preset saved in *)
(* an earlier session, and every handler that re-arms the timer                *)

\* a preset this program stored: Kick on every fourth step, tempo 120
EarlierPreset ==
    Snapshot("A", fillWithPattern(initializeBoard(SoundNames), "Kick", 4, 0),
             120, DefaultVolumes)

InitTransport == InitWith(MaxTransportOps, <<EarlierPreset>>)

NextTransport ==
    \/ KeyUpSpace
    \/ ClickPlayPause
    \/ Tick(MaxBarTicks)
    \/ Reset
    \/ \E text \in {"300", "0"} : ChangeBpm(text)
    \/ ToggleMute(0)
    \/ InputVolume(0, "1")
    \/ ClickFill("Kick", 2, 1)
    \/ ToggleCell("Kick", 5)
    \/ Load(1)

SpecTransport == InitTransport /\ [][NextTransport]_vars

----------------------------------------------------------------------------
(* fillWithPattern on arbitrary arguments *)

\* the arguments tried: every divisor and offset up to MaxDivisor (offsets at
\* or above the divisor included), and those of the pattern buttons
FillArgs ==
    { <<step, skip>> : step \in 1..MaxDivisor, skip \in 0..MaxDivisor } \cup FillButtons

InitFill == InitWith(MaxFillOps, <<>>)

NextFill ==
    \/ \E args \in FillArgs : ClickFill("Kick", args[1], args[2])
    \/ \E soundName \in EditSounds, idx \in EditCols : ToggleCell(soundName, idx)

SpecFill == InitFill /\ [][NextFill]_vars

----------------------------------------------------------------------------
(* A page whose stored preset comes from a build with another sound list *)

\* its pattern has a row for a sound that is configured no more, ahead of the
\* rows of the configured sounds
StalePreset ==
    Snapshot("old",
             <<[name |-> "Cowbell", beats |-> generatePattern(boardWidth, 8, 0)],
               [name |-> "Kick", beats |-> generatePattern(boardWidth, 4, 0)],
               [name |-> "Hi Hat", beats |-> generatePattern(boardWidth, 2, 1)],
               [name |-> "Snare", beats |-> AllFalse(boardWidth)],
               [name |-> "Clap", beats |-> AllFalse(boardWidth)]>>,
             120, DefaultVolumes)

InitStale == InitWith(MaxStaleOps, <<StalePreset>>)

SpecStale == InitStale /\ [][Next]_vars

----------------------------------------------------------------------------
(* The interval and the event loop: a firing waits for its callback while the *)
(* handlers that stop, start and re-arm the transport run first               *)

InitTimer == InitWith(MaxTimerOps, <<>>)

NextTimer ==
    \/ KeyUpSpace
    \/ ClickPlayPause
    \/ Reset
    \/ Elapse
    \/ RunQueued(MaxTimerTicks)
    \/ ToggleMute(0)
    \/ ToggleCell("Kick", 0)
    \/ InputVolume(0, "1")

SpecTimer == InitTimer /\ [][NextTimer]_vars

----------------------------------------------------------------------------
(* Playback without end: the ticks are not limited, the user's operations are *)

InitLive == InitWith(MaxLiveOps, <<EarlierPreset>>)

NextLive ==
    \/ KeyUpSpace
    \/ ClickPlayPause
    \/ FreeTick
    \/ \E text \in {"300", "0"} : ChangeBpm(text)
    \/ ToggleMute(0)
    \/ ToggleCell("Kick", 0)
    \/ Load(1)

\* setInterval calls the callback of an interval that stays armed, once its
\* period has passed: a period that is a positive number of milliseconds passes
TimerFires == FreeTick /\ timer.period.finite /\ timer.period.ms > 0

SpecLive == InitLive /\ [][NextLive]_vars /\ WF_vars(TimerFires)

----------------------------------------------------------------------------
(* The preset list: a page that starts with one preset, every preset handler, *)
(* and one handler of each kind that edits the live state                     *)

InitPresets == InitWith(MaxPresetOps, <<EarlierPreset>>)

NextPresets ==
    \/ \E name \in NewNames : SaveAsNew(name)
    \/ \E i \in 1..MaxBeats : Load(i)
    \/ \E i \in 1..MaxBeats, confirmed \in BOOLEAN : Overwrite(i, confirmed)
    \/ \E i \in 1..MaxBeats, confirmed \in BOOLEAN : Delete(i, confirmed)
    \/ \E i \in 1..MaxBeats, newName \in Renames : Rename(i, newName)
    \/ ToggleCell("Kick", 0)
    \/ ClickFill("Kick", 2, 1)
    \/ ChangeBpm("300")
    \/ InputVolume(0, "1")
    \/ ToggleMute(0)
    \/ KeyUpSpace
    \/ Tick(MaxTicks)
    \/ Reset

SpecPresets == InitPresets /\ [][NextPresets]_vars

----------------------------------------------------------------------------
(* Claims *)

\* C1: every Stopped -> Playing transition, by the play/pause button or by the
\* space-bar, leaves currentCol = 0 in the state it reaches, whatever currentCol
\* was while stopped.
PlayStartRewinds ==
    (last.op \in {"button", "space"} /\ isPlaying) => currentCol = 0

\* C2: in a playing period that began with currentCol = 0, after N ticks
\* currentCol = N mod width and the N-th tick decided on column (N - 1) mod
\* width, however the ticks interleave with the handlers that re-arm the timer.
TickMonotonic ==
    (isPlaying /\ startCol = 0) =>
        /\ currentCol = nTicks % boardWidth
        /\ nTicks > 0 => tickCol = (nTicks - 1) % boardWidth

\* a bar and one more tick were played from column 0, with edits in the period
TickMonotonicWitness ==
    /\ isPlaying /\ startCol = 0
    /\ nTicks = boardWidth + 1
    /\ currentCol = 1 /\ tickCol = 0
    /\ periodEdits > 0
    /\ last.op = "tick"

\* C3: a Playing -> Stopped transition by the play/pause button or the
\* space-bar leaves currentCol as the last tick left it.
StopFreezesStep ==
    [][(isPlaying /\ ~isPlaying' /\ last'.op \in {"button", "space"})
          => currentCol' = currentCol]_vars

\* C4: a tick on column tickCol starts a configured sound if and only if the
\* sound's own row is true at tickCol and the mute flag at the sound's own index
\* is false; rows of names that are no configured sound start nothing.
TickStartsOwnRows ==
    last.op = "tick" =>
        played = { SoundNames[k] : k \in { j \in 1..Len(SoundNames) :
                       /\ HasRow(board, SoundNames[j])
                       /\ CellAt(RowOf(board, SoundNames[j]), tickCol)
                       /\ ~mutes[j] } }

\* C6: the tempo a timer is armed with is at least 1, and its period is finite
\* and strictly positive.
ArmedTempoAtLeastOne ==
    timer.armed =>
        /\ timer.bpm >= 1
        /\ timer.period.finite
        /\ timer.period.ms > 0

\* the row the specification describes: step i is true iff i mod divisor = offset
PatternRow(divisor, offset) == [i \in 1..boardWidth |-> ((i - 1) % divisor) = offset]

\* C7 as stated: two fillWithPattern calls in a row with the same arguments
\* leave the row all-false, whatever it held before the first call.
FillTwiceClears ==
    Len(fills) = 2 => RowOf(board, fills[2].sound) = AllFalse(boardWidth)

\* C7 as amended: two calls in a row with the same arguments leave the row
\* all-false unless the row equalled a generated pattern with a true step before
\* the first call; that row ends equal to the pattern again.
FillTwiceToggles ==
    Len(fills) = 2 =>
        LET before  == RowOf(fills[1].pre, fills[1].sound)
            pattern == PatternRow(fills[1].step, fills[1].skip)
        IN  RowOf(board, fills[2].sound) =
                IF before = pattern /\ pattern # AllFalse(boardWidth)
                THEN pattern
                ELSE AllFalse(boardWidth)

\* two identical calls on a row that held something else than the pattern
FillTwiceWitness ==
    /\ Len(fills) = 2
    /\ LET before  == RowOf(fills[1].pre, fills[1].sound)
           pattern == PatternRow(fills[1].step, fills[1].skip)
       IN  /\ before # pattern
           /\ before # AllFalse(boardWidth)
           /\ pattern # AllFalse(boardWidth)
           /\ RowOf(fills[2].pre, fills[2].sound) = pattern
    /\ RowOf(board, fills[2].sound) = AllFalse(boardWidth)

\* C8: a fillWithPattern call on a row that differs from the generated pattern
\* sets the row to the pattern (step i true iff i mod divisor = offset) and
\* leaves every other row as it was; divisor 4, offset 0 gives 0, 4, 8, 12.
FillSetsPattern ==
    (last.op = "fill" /\ fills # <<>>) =>
        LET f       == fills[Len(fills)]
            before  == RowOf(f.pre, f.sound)
            pattern == PatternRow(f.step, f.skip)
            row     == RowOf(board, f.sound)
        IN  before # pattern =>
                /\ row = pattern
                /\ Len(board) = Len(f.pre)
                /\ \A k \in 1..Len(board) :
                       board[k].name # f.sound => board[k] = f.pre[k]
                /\ (f.step = 4 /\ f.skip = 0) =>
                       { c \in 0..(boardWidth - 1) : row[c + 1] } = {0, 4, 8, 12}

\* the divisor 4, offset 0 fill of an edited row, beside another edited row
FillSetsPatternWitness ==
    /\ last.op = "fill" /\ fills # <<>>
    /\ LET f == fills[Len(fills)]
       IN  /\ f.step = 4 /\ f.skip = 0
           /\ RowOf(f.pre, f.sound) # AllFalse(boardWidth)
           /\ RowOf(f.pre, f.sound) # PatternRow(4, 0)
           /\ RowOf(board, f.sound) = PatternRow(4, 0)
    /\ RowOf(board, "Snare") # AllFalse(boardWidth)

\* C9: loading a preset makes the live grid, tempo and volumes those that were
\* live when the preset was saved.
LoadRestoresUnit ==
    last.op = "load" =>
        /\ board = stored[last.arg].pattern
        /\ bpm = stored[last.arg].bpm
        /\ volumes = stored[last.arg].volumes

\* C10: every volume lies in [0, 1], that is 0..100 hundredths.
VolumesInRange ==
    \A i \in 1..Len(volumes) : 0 <= volumes[i] /\ volumes[i] <= 100


\* C11: declining the confirmation of an overwrite or a delete, and cancelling
\* or leaving empty the name prompt of save-as-new or of rename, changes no
\* state: the preset list, the grid, the tempo, the volumes, the mutes,
\* isPlaying and currentCol are what they were, and so is the armed interval.
DeclineChangesNothing ==
    [][(/\ opsLeft' = opsLeft - 1
        /\ last'.op \in {"saveNewCancelled", "overwriteDeclined", "deleteDeclined",
                         "renameCancelled"})
       => UNCHANGED <<progVars, timer>>]_vars

\* an overwrite was declined while the grid differed from the stored pattern
DeclineChangesNothingWitness ==
    /\ last.op = "overwriteDeclined"
    /\ savedBeats[last.arg].pattern # board

\* C12: a rename with a non-empty name changes only the name of the preset it
\* is given: that preset's pattern, tempo and volumes, every other preset, the
\* order and the length of the list, and the live grid, tempo, volumes, mutes
\* and transport are what they were.
RenameOnlyName ==
    [][(opsLeft' = opsLeft - 1 /\ last'.op = "rename")
       => /\ Len(savedBeats') = Len(savedBeats)
          /\ \A k \in 1..Len(savedBeats) :
                IF k = last'.arg
                THEN /\ savedBeats'[k].name # ""
                     /\ savedBeats'[k].pattern = savedBeats[k].pattern
                     /\ savedBeats'[k].bpm = savedBeats[k].bpm
                     /\ savedBeats'[k].volumes = savedBeats[k].volumes
                ELSE savedBeats'[k] = savedBeats[k]
          /\ UNCHANGED <<bpm, isPlaying, currentCol, board, mutes, volumes, timer>>]_vars

\* one of two presets was renamed while the live grid, tempo and volumes
\* differed from what it stores
RenameOnlyNameWitness ==
    /\ last.op = "rename"
    /\ Len(savedBeats) = 2
    /\ savedBeats[last.arg].name = "B"
    /\ savedBeats[last.arg].pattern # board
    /\ savedBeats[last.arg].bpm # bpm

\* C13: while isPlaying is false no tick takes effect: a callback that runs
\* then, a firing that was already waiting when playback stopped included,
\* starts no sound and leaves currentCol and every other program variable as
\* it was, until playback is started again.
NoTickWhileStopped ==
    [][(~isPlaying /\ last'.op \in {"tick", "canceledFiring"})
       => UNCHANGED <<progVars, tickCol, played, nTicks>>]_vars

\* a firing that waited when playback stopped has run, after at least one tick
\* of that playing period, and the transport is stopped
NoTickWhileStoppedWitness ==
    /\ last.op = "canceledFiring"
    /\ ~isPlaying
    /\ tickCol >= 0

\* C14: in every state reached by cell toggles, fills, resets, save-as-new,
\* overwrites, deletes, renames and loads of presets this program created, the
\* grid has exactly one row for each configured sound and every row has
\* exactly boardWidth cells.
GridShape ==
    /\ Len(board) = Len(SoundNames)
    /\ \A i \in 1..Len(SoundNames) :
          \E j \in 1..Len(board) : board[j].name = SoundNames[i]
    /\ \A j \in 1..Len(board) : Len(board[j].beats) = boardWidth

\* a preset saved from an edited grid was loaded back
GridShapeWitness ==
    /\ last.op = "load"
    /\ \E j \in 1..Len(board) : \E c \in 1..Len(board[j].beats) : board[j].beats[c]

\* C15: every tick decides from the grid and the mutes that are current when
\* it begins: the sounds it starts are those of the live grid's column under
\* the live mutes, whatever edit, fill, load or mute toggle completed since an
\* earlier interval was armed or fired.
TickUsesCurrent ==
    [][(last'.op = "tick" /\ nTicks' # nTicks)
       => played' = StartedSounds(board, currentCol, mutes)]_vars

\* a tick started a sound after the user had edited the grid or the mutes in
\* the same playing period
TickUsesCurrentWitness ==
    /\ last.op = "tick"
    /\ periodEdits > 0
    /\ played # {}

\* C16: the preset list is changed by save-as-new, overwrite, rename and delete
\* only: a cell toggle, fill, reset, volume, mute or tempo change, tick or
\* preset load leaves every stored preset as it was, also when the live grid
\* it edits was just saved or loaded.
PresetsChangedBySavesOnly ==
    [][savedBeats' # savedBeats
       => /\ opsLeft' = opsLeft - 1
          /\ last'.op \in {"saveNew", "overwrite", "rename", "delete"}]_vars

\* a cell was toggled in a grid that equalled a stored pattern, and the stored
\* pattern is still the grid of before the toggle
PresetsChangedBySavesOnlyWitness ==
    /\ last.op = "cell"
    /\ \E k \in 1..Len(savedBeats) :
          /\ savedBeats[k].pattern # initializeBoard(SoundNames)
          /\ savedBeats[k].pattern = toggleCell(board, "Kick", last.arg)

\* C17: Reset, from any state, leaves a grid with one all-false row of
\* boardWidth cells per configured sound, isPlaying false and currentCol 0.
ResetRewinds ==
    last.op = "reset"
    => /\ board = [i \in 1..Len(SoundNames) |->
                     [name |-> SoundNames[i], beats |-> [c \in 1..boardWidth |-> FALSE]]]
       /\ ~isPlaying
       /\ currentCol = 0

\* Reset ended a playing period whose last tick had started a sound: the grid
\* was not empty, the transport ran and currentCol had advanced
ResetRewindsWitness ==
    /\ last.op = "reset"
    /\ tickCol >= 0
    /\ played # {}

\* C18: a tick never changes the values of the mutes and never loses a mute
\* toggle: the mutes change in the step of a mute toggle only, and then by
\* exactly that toggle, so after every tick they are the initial mutes with
\* the toggles made so far applied in order.
MutesFollowToggles ==
    [][/\ (last'.op = "tick" /\ nTicks' # nTicks) => mutes' = mutes
       /\ mutes' # mutes
            => /\ opsLeft' = opsLeft - 1
               /\ last'.op = "mute"
               /\ mutes' = [mutes EXCEPT ![last'.arg + 1] = ~mutes[last'.arg + 1]]]_vars

\* a tick ran after a mute toggle made in the same playing period, and the
\* toggled mute stands
MutesFollowTogglesWitness ==
    /\ last.op = "tick"
    /\ periodEdits > 0
    /\ mutes[1]

\* C19: a save-as-new with a non-empty name appends exactly one preset, holding
\* the grid, tempo and volumes of before the save, at the end of the list,
\* leaves the earlier presets as they were, and replaces the live grid by the
\* all-false grid while tempo, volumes, mutes, isPlaying and currentCol stay.
SaveAsNewAppends ==
    [][(opsLeft' = opsLeft - 1 /\ last'.op = "saveNew")
       => /\ Len(savedBeats') = Len(savedBeats) + 1
          /\ \A k \in 1..Len(savedBeats) : savedBeats'[k] = savedBeats[k]
          /\ savedBeats'[Len(savedBeats')].name # ""
          /\ savedBeats'[Len(savedBeats')].pattern = board
          /\ savedBeats'[Len(savedBeats')].bpm = bpm
          /\ savedBeats'[Len(savedBeats')].volumes = volumes
          /\ board' = [i \in 1..Len(SoundNames) |->
                         [name |-> SoundNames[i],
                          beats |-> [c \in 1..boardWidth |-> FALSE]]]
          /\ UNCHANGED <<bpm, volumes, mutes, isPlaying, currentCol>>]_vars

\* a second preset was saved from an edited grid while the transport played
SaveAsNewAppendsWitness ==
    /\ last.op = "saveNew"
    /\ Len(savedBeats) = 2
    /\ savedBeats[2].pattern # initializeBoard(SoundNames)
    /\ board = initializeBoard(SoundNames)
    /\ isPlaying

\* C20: the transport is never Playing with no interval armed, whatever change,
\* a tick's own included, tore the last one down; and if from some point on
\* it stays Playing with a tempo in 1..300 then, the user's operations being
\* finitely many and the armed interval firing, currentCol takes each value
\* in 0..boardWidth-1 again and again.
PlaybackGoesOn ==
    /\ [](isPlaying => timer.armed)
    /\ \A c \in 0..(boardWidth - 1) :
          <>[](isPlaying /\ bpm >= 1 /\ bpm <= 300) => []<>(currentCol = c)

\* the user has made the last operation, edits during playback among them, and
\* the transport plays on at a tempo in range and has reached the last column
PlaybackGoesOnWitness ==
    /\ isPlaying
    /\ bpm >= 1 /\ bpm <= 300
    /\ opsLeft = 0
    /\ periodEdits > 0
    /\ last.op = "tick"
    /\ currentCol = boardWidth - 1

====
